---------------------------- MODULE Spec2Model ----------------------------
(***************************************************************************)
(* A model of the BioNova medical image viewer:                            *)
(*   - ImageProcessor   (src/src/core/image_processor.py), the Image       *)
(*     Loader and the Format Bridge;                                       *)
(*   - VTKRenderer      (src/src/core/vtk_renderer.py), the Display        *)
(*     Controller;                                                         *)
(*   - MedicalImageViewerApp (src/src/main_application.py), the            *)
(*     Application Controller;                                             *)
(*   - MedicalLogger    (src/src/core/medical_logger.py), the Audit Logger.*)
(*                                                                         *)
(* Specifications:                                                         *)
(*   Spec          the UI operations of the Application Controller, each   *)
(*                 one action that runs the whole slot;                    *)
(*   LoaderSpec    the public methods of ImageProcessor called directly;   *)
(*   RendererSpec  the public methods of VTKRenderer called directly;      *)
(*   LoggerSpec    the MedicalLogger with its threading.Lock, one step per *)
(*                 lock acquisition, stream write and release, and         *)
(*                 LoggerFairSpec, the same with every thread scheduled.   *)
(*                                                                         *)
(* Spec, LoaderSpec and RendererSpec record which MedicalLogger method     *)
(* each step calls (out.log) and take the call to return, as it does with  *)
(* any logger object whose methods return; what a call does to the lock    *)
(* and the streams of MedicalLogger, and whether it returns, is the        *)
(* subject of LoggerSpec.                                                  *)
(*                                                                         *)
(* Numbers: scalar values, windows and levels are kept in halves (the      *)
(* integer 2x stands for x), so that (max + min) / 2 is exact; transfer    *)
(* function positions are kept in tenths.                                  *)
(***************************************************************************)
EXTENDS Integers, Sequences, FiniteSets, TLC

-----------------------------------------------------------------------------
(* Bounds of the model *)

\* Decoded images the external DICOM reader can produce: 1..NumImages.
NumImages == 2
\* Meshes the external STL reader can produce: 1..NumMeshes.
NumMeshes == 1
\* Largest window / level (in halves) a caller supplies.
MaxWL == 1

ImageIds == 1..NumImages
MeshIds  == 1..NumMeshes

\* vtk_image.GetScalarRange() of the image converted from decoded image i,
\* <<min, max>> in whole units.  Image 1 is constant (min = max), image 2
\* has an odd min + max.
ScalarRange(i) == <<2 * i - 4, 3 * i - 5>>

\* Python's None for an object slot; an optional number is <<>> or <<x>>.
None == 0

-----------------------------------------------------------------------------
(* Events and log calls *)

\* A signal emission: the signal's name and what its argument says.  For
\* errorOccurred the argument is the kind of the message text:
\*   "Directory does not exist: ..."            NotFound
\*   "No DICOM series found ..."                NoSeries
\*   "No DICOM files found for series ..."      NoFiles
\*   "Failed to load DICOM series: <exc>"       LibraryError
\*   "... not available ..."                    Unavailable
\*   "Invalid or empty STL file"                EmptyMesh
\*   "Failed to convert SimpleITK to VTK"       ConversionError
\*   "Failed to display ...: <exc>"             RenderError
Ev(sig, arg) == [sig |-> sig, arg |-> arg]
Err(kind)    == Ev("errorOccurred", kind)

\* The result of a component method: the component's new state, what it
\* returned ("obj", "None", "True", "False", or "raise" when an exception
\* leaves the method), the signals it emitted, the MedicalLogger methods it
\* called, and whether render_window.Render() completed.
Res(st, ret, ui, log, rendered) ==
    [st |-> st, ret |-> ret, ui |-> ui, log |-> log, rendered |-> rendered]

-----------------------------------------------------------------------------
(* ImageProcessor *)

EmptyMetadata == [image_type |-> "", src |-> None]

\* ImageProcessor.__init__
ImageProcessorInit ==
    [current_sitk_image |-> None,
     current_vtk_image  |-> None,
     current_polydata   |-> None,
     image_metadata     |-> EmptyMetadata]

\* What the file system and the external reader do for a directory:
\*   exists  Path(directory).exists()
\*   scan    GetGDCMSeriesIDs / GetGDCMSeriesFileNames: "raises", "empty"
\*           (no series), "nofiles" (a series without files), "ok"
\*   read    series_reader.Execute(): "raises" or "ok"
\*   img     the decoded image
\*   meta    whether reading the image's properties for the metadata works
Directories ==
    { d \in [exists : BOOLEAN, scan : {"raises", "empty", "nofiles", "ok"},
             read : {"raises", "ok"}, img : ImageIds, meta : BOOLEAN] :
        /\ (~d.exists) => (d.scan \in {"raises", "empty"})
        /\ (d.scan # "ok") => (d.read = "ok" /\ d.img = 1 /\ d.meta)
        /\ (d.read # "ok") => (d.img = 1 /\ d.meta) }

\* ImageProcessor._extract_dicom_metadata: the metadata map is replaced, or
\* left as it was (and an error logged) when reading a property raises.
extract_dicom_metadata(p, d) ==
    IF d.meta
    THEN [st  |-> [p EXCEPT !.image_metadata =
                       [image_type |-> "DICOM", src |-> d.img]],
          log |-> <<>>]
    ELSE [st |-> p, log |-> <<"log_error">>]

\* load_dicom_series with one change: a directory without series drops the
\* image held so far.
load_dicom_series_dropping(p, sitk_available, d) ==
    IF ~sitk_available
    THEN Res(p, "None", <<Err("Unavailable")>>, <<"log_error">>, FALSE)
    ELSE IF ~d.exists
    THEN Res(p, "None", <<Err("NotFound")>>, <<"log_error">>, FALSE)
    ELSE IF d.scan = "raises"
    THEN Res(p, "None", <<Err("LibraryError")>>,
             <<"log_file_operation", "log_error">>, FALSE)
    ELSE IF d.scan = "empty"
    THEN Res([p EXCEPT !.current_sitk_image = None], "None",
             <<Err("NoSeries")>>, <<"log_file_operation", "log_error">>, FALSE)
    ELSE IF d.scan = "nofiles"
    THEN Res(p, "None", <<Err("NoFiles")>>,
             <<"log_file_operation", "log_error">>, FALSE)
    ELSE IF d.read = "raises"
    THEN Res(p, "None", <<Err("LibraryError")>>,
             <<"log_file_operation", "log_error">>, FALSE)
    ELSE LET stored == [p EXCEPT !.current_sitk_image = d.img]
             m      == extract_dicom_metadata(stored, d)
         IN  Res(m.st, "obj", <<Ev("imageLoaded", "DICOM")>>,
                 <<"log_file_operation">> \o m.log \o
                 <<"log_file_operation", "log_image_processing">>, FALSE)

\* ImageProcessor.load_dicom_series
load_dicom_series(p, sitk_available, d) ==
    IF ~sitk_available
    THEN Res(p, "None", <<Err("Unavailable")>>, <<"log_error">>, FALSE)
    ELSE IF ~d.exists
    THEN Res(p, "None", <<Err("NotFound")>>, <<"log_error">>, FALSE)
    ELSE IF d.scan = "raises"
    THEN Res(p, "None", <<Err("LibraryError")>>,
             <<"log_file_operation", "log_error">>, FALSE)
    ELSE IF d.scan = "empty"
    THEN Res(p, "None", <<Err("NoSeries")>>,
             <<"log_file_operation", "log_error">>, FALSE)
    ELSE IF d.scan = "nofiles"
    THEN Res(p, "None", <<Err("NoFiles")>>,
             <<"log_file_operation", "log_error">>, FALSE)
    ELSE IF d.read = "raises"
    THEN Res(p, "None", <<Err("LibraryError")>>,
             <<"log_file_operation", "log_error">>, FALSE)
    ELSE LET stored == [p EXCEPT !.current_sitk_image = d.img]
             m      == extract_dicom_metadata(stored, d)
         IN  Res(m.st, "obj", <<Ev("imageLoaded", "DICOM")>>,
                 <<"log_file_operation">> \o m.log \o
                 <<"log_file_operation", "log_image_processing">>, FALSE)

\* ImageProcessor.validate_dicom_integrity: <<is_valid, reason>> and the
\* logger calls made.
validate_dicom_integrity(sitk_available, d) ==
    IF ~sitk_available
    THEN [valid |-> FALSE, msg |-> "Unavailable", log |-> <<>>]
    ELSE IF d.scan = "raises"
    THEN [valid |-> FALSE, msg |-> "LibraryError", log |-> <<"log_error">>]
    ELSE IF d.scan = "empty"
    THEN [valid |-> FALSE, msg |-> "NoSeries", log |-> <<>>]
    ELSE IF d.scan = "nofiles"
    THEN [valid |-> FALSE, msg |-> "NoFiles", log |-> <<>>]
    ELSE [valid |-> TRUE, msg |-> "",
          log |-> <<"log_image_processing">>]

\* What the file system and the STL reader do for a file path.
StlFiles ==
    { f \in [exists : BOOLEAN, read : {"raises", "empty", "ok"},
             mesh : MeshIds, meta : BOOLEAN] :
        /\ (~f.exists) => (f.read = "ok" /\ f.mesh = 1 /\ f.meta)
        /\ (f.read # "ok") => (f.mesh = 1 /\ f.meta) }

\* ImageProcessor._extract_stl_metadata
extract_stl_metadata(p, f) ==
    IF f.meta
    THEN [st  |-> [p EXCEPT !.image_metadata =
                       [image_type |-> "STL", src |-> f.mesh]],
          log |-> <<>>]
    ELSE [st |-> p, log |-> <<"log_error">>]

\* ImageProcessor.load_stl_file
load_stl_file(p, vtk_available, f) ==
    IF ~vtk_available
    THEN Res(p, "None", <<Err("Unavailable")>>, <<"log_error">>, FALSE)
    ELSE IF ~f.exists
    THEN Res(p, "None", <<Err("NotFound")>>, <<"log_error">>, FALSE)
    ELSE IF f.read = "raises"
    THEN Res(p, "None", <<Err("LibraryError")>>,
             <<"log_file_operation", "log_error">>, FALSE)
    ELSE IF f.read = "empty"
    THEN Res(p, "None", <<Err("EmptyMesh")>>,
             <<"log_file_operation", "log_error">>, FALSE)
    ELSE LET stored == [p EXCEPT !.current_polydata = f.mesh]
             m      == extract_stl_metadata(stored, f)
         IN  Res(m.st, "obj", <<Ev("imageLoaded", "STL")>>,
                 <<"log_file_operation">> \o m.log \o
                 <<"log_file_operation", "log_image_processing">>, FALSE)

\* ImageProcessor.convert_sitk_to_vtk; conv is what the buffer copy does.
\* The renderable image made from decoded image i is named i.
convert_sitk_to_vtk(p, vtk_available, sitk_available, sitk_image, conv) ==
    IF ~vtk_available \/ ~sitk_available
    THEN Res(p, "None", <<Err("Unavailable")>>, <<"log_error">>, FALSE)
    ELSE IF conv = "raises"
    THEN Res(p, "None", <<Err("ConversionError")>>, <<"log_error">>, FALSE)
    ELSE Res([p EXCEPT !.current_vtk_image = sitk_image], "obj", <<>>,
             <<"log_image_processing">>, FALSE)

\* clear_current_data with one change: the metadata map is kept.
clear_current_data_keeping_metadata(p) ==
    Res([ImageProcessorInit EXCEPT !.image_metadata = p.image_metadata],
        "None", <<>>, <<"log_system_event">>, FALSE)

\* ImageProcessor.clear_current_data
clear_current_data(p) ==
    Res(ImageProcessorInit, "None", <<>>, <<"log_system_event">>, FALSE)

-----------------------------------------------------------------------------
(* VTKRenderer *)

\* VTKRenderer.__init__.  When the module's VTK import failed the
\* constructor returns before it assigns any attribute (attrs = FALSE), and
\* a later read of one raises AttributeError.
\*   renderer               whether self.renderer (and with it the render
\*                          window and the interactor) is set
\*   props                  the view props of self.renderer's scene
\*   window_level           <<>> or <<[window, level]>>, in halves
\*   color_func, opacity_func   <<>> or <<set of <<position, value>> >>
VTKRendererInit(vtk_available) ==
    [attrs                |-> vtk_available,
     renderer             |-> FALSE,
     current_vtk_image    |-> None,
     current_polydata     |-> None,
     current_display_mode |-> "None",
     window_level         |-> <<>>,
     color_func           |-> <<>>,
     opacity_func         |-> <<>>,
     props                |-> {}]

\* Where an exception of the graphics library leaves a display method:
\*   "none"    nowhere
\*   "build"   in the first constructor call after the mode was assigned
\*   "render"  in render_window.Render(), after the actor was added
DisplayFails == {"none", "build", "render"}
RenderFails  == {"none", "render"}

\* VTKRenderer.initialize_render_window; outcome is "ok" or "raises", the
\* library raising while the render window is created.  A second call
\* replaces the renderer by a new one, whose scene is empty.
InitOutcomes == {"ok", "raises"}

initialize_render_window(r, vtk_available, outcome) ==
    IF ~vtk_available
    THEN Res(r, "False", <<>>, <<>>, FALSE)
    ELSE IF outcome = "raises"
    THEN Res(r, "False", <<Err("RenderError")>>, <<"log_error">>, FALSE)
    ELSE Res([r EXCEPT !.renderer = TRUE, !.props = {}],
             "True", <<>>, <<"log_system_event">>, FALSE)

\* The window and level display_2d_image applies (lines 151-160): each
\* argument that is None is replaced by its default over the scalar range.
DefaultWindow(vtk_image) ==
    2 * (ScalarRange(vtk_image)[2] - ScalarRange(vtk_image)[1])

DefaultLevel(vtk_image) ==
    ScalarRange(vtk_image)[2] + ScalarRange(vtk_image)[1]

\* AppliedWindowLevel with one change: the two defaults are taken together,
\* whenever either argument is None.
AppliedWindowLevel_coupled(vtk_image, window, level) ==
    IF window = <<>> \/ level = <<>>
    THEN [window |-> DefaultWindow(vtk_image), level |-> DefaultLevel(vtk_image)]
    ELSE [window |-> window[1], level |-> level[1]]

AppliedWindowLevel(vtk_image, window, level) ==
    [window |-> IF window = <<>> THEN DefaultWindow(vtk_image) ELSE window[1],
     level  |-> IF level = <<>> THEN DefaultLevel(vtk_image) ELSE level[1]]

\* VTKRenderer.display_2d_image
display_2d_image(r, vtk_available, vtk_image, window, level, fail) ==
    IF ~vtk_available \/ ~r.renderer
    THEN Res(r, "False", <<>>, <<>>, FALSE)
    ELSE LET r1 == [r EXCEPT !.props = {},
                             !.current_vtk_image = vtk_image,
                             !.current_display_mode = "2D"]
             r2 == [r1 EXCEPT !.window_level =
                                 <<AppliedWindowLevel(vtk_image, window, level)>>,
                              !.props = {"image_actor"}]
         IN  IF fail = "build"
             THEN Res(r1, "False", <<Err("RenderError")>>, <<"log_error">>, FALSE)
             ELSE IF fail = "render"
             THEN Res(r2, "False", <<Err("RenderError")>>, <<"log_error">>, FALSE)
             ELSE Res(r2, "True", <<Ev("renderingComplete", "2D")>>,
                      <<"log_image_processing">>, TRUE)

\* Transfer function presets.  "other" stands for every name that is not
\* one of the three the code tests for.
Presets == {"default", "ct_bone", "ct_soft_tissue", "other"}

\* AddRGBPoint / AddPoint: a node at a position that already has one
\* replaces it.
AddPoint(points, x, v) == {q \in points : q[1] # x} \cup {<<x, v>>}

RECURSIVE AddPoints(_, _)
AddPoints(points, nodes) ==
    IF nodes = <<>> THEN points
    ELSE AddPoints(AddPoint(points, Head(nodes)[1], Head(nodes)[2]), Tail(nodes))

\* min_val + (max_val - min_val) * f, in tenths, for f given in tenths.
Position(vtk_image, f10) ==
    10 * ScalarRange(vtk_image)[1]
        + (ScalarRange(vtk_image)[2] - ScalarRange(vtk_image)[1]) * f10

\* ColorNodes with one change: a name that is none of the three gets the
\* nodes of ct_bone.
ColorNodes_unknown_as_bone(preset) ==
    IF preset \in {"ct_bone", "other"}
    THEN << <<0, <<0, 0, 0>> >>, <<2, <<20, 10, 5>> >>,
            <<5, <<80, 70, 60>> >>, <<10, <<100, 100, 100>> >> >>
    ELSE IF preset = "ct_soft_tissue"
    THEN << <<0, <<0, 0, 0>> >>, <<3, <<80, 40, 20>> >>,
            <<7, <<100, 80, 60>> >>, <<10, <<100, 100, 100>> >> >>
    ELSE << <<0, <<0, 0, 0>> >>, <<3, <<50, 20, 10>> >>,
            <<6, <<100, 70, 60>> >>, <<10, <<100, 100, 100>> >> >>

\* The nodes _setup_transfer_functions adds for a preset, in the order it
\* adds them: fraction of the range in tenths, then the value (an RGB
\* triple in hundredths, an opacity in tenths).
ColorNodes(preset) ==
    IF preset = "ct_bone"
    THEN << <<0, <<0, 0, 0>> >>, <<2, <<20, 10, 5>> >>,
            <<5, <<80, 70, 60>> >>, <<10, <<100, 100, 100>> >> >>
    ELSE IF preset = "ct_soft_tissue"
    THEN << <<0, <<0, 0, 0>> >>, <<3, <<80, 40, 20>> >>,
            <<7, <<100, 80, 60>> >>, <<10, <<100, 100, 100>> >> >>
    ELSE << <<0, <<0, 0, 0>> >>, <<3, <<50, 20, 10>> >>,
            <<6, <<100, 70, 60>> >>, <<10, <<100, 100, 100>> >> >>

OpacityNodes(preset) ==
    IF preset = "ct_bone"
    THEN << <<0, 0>>, <<1, 0>>, <<4, 5>>, <<10, 10>> >>
    ELSE IF preset = "ct_soft_tissue"
    THEN << <<0, 0>>, <<2, 1>>, <<5, 4>>, <<10, 8>> >>
    ELSE << <<0, 0>>, <<1, 0>>, <<3, 3>>, <<10, 10>> >>

Placed(vtk_image, nodes) ==
    [i \in 1..Len(nodes) |-> <<Position(vtk_image, nodes[i][1]), nodes[i][2]>>]

\* setup_transfer_functions with one change: RemoveAllPoints is left out,
\* so the nodes of the function as it was stay.
setup_transfer_functions_keeping(r, vtk_image, preset) ==
    [r EXCEPT !.color_func =
                  <<AddPoints(IF r.color_func = <<>> THEN {} ELSE r.color_func[1],
                              Placed(vtk_image, ColorNodes(preset)))>>,
              !.opacity_func =
                  <<AddPoints(IF r.opacity_func = <<>> THEN {}
                              ELSE r.opacity_func[1],
                              Placed(vtk_image, OpacityNodes(preset)))>>]

\* VTKRenderer._setup_transfer_functions, on functions that exist:
\* RemoveAllPoints, then the preset's nodes.
setup_transfer_functions(r, vtk_image, preset) ==
    [r EXCEPT !.color_func =
                  <<AddPoints({}, Placed(vtk_image, ColorNodes(preset)))>>,
              !.opacity_func =
                  <<AddPoints({}, Placed(vtk_image, OpacityNodes(preset)))>>]

\* VTKRenderer.display_3d_volume
display_3d_volume(r, vtk_available, vtk_image, preset, fail) ==
    IF ~vtk_available \/ ~r.renderer
    THEN Res(r, "False", <<>>, <<>>, FALSE)
    ELSE LET r1 == [r EXCEPT !.props = {},
                             !.current_vtk_image = vtk_image,
                             !.current_display_mode = "3D_VOLUME"]
             r2 == [setup_transfer_functions(r1, vtk_image, preset)
                       EXCEPT !.props = {"volume"}]
         IN  IF fail = "build"
             THEN Res(r1, "False", <<Err("RenderError")>>, <<"log_error">>, FALSE)
             ELSE IF fail = "render"
             THEN Res(r2, "False", <<Err("RenderError")>>, <<"log_error">>, FALSE)
             ELSE Res(r2, "True", <<Ev("renderingComplete", "3D_VOLUME")>>,
                      <<"log_image_processing">>, TRUE)

\* display_stl_model with one change: RemoveAllViewProps is left out.
display_stl_model_adding(r, vtk_available, polydata, fail) ==
    IF ~vtk_available \/ ~r.renderer
    THEN Res(r, "False", <<>>, <<>>, FALSE)
    ELSE LET r1 == [r EXCEPT !.current_polydata = polydata,
                             !.current_display_mode = "STL"]
             r2 == [r1 EXCEPT !.props = @ \cup {"stl_actor"}]
         IN  IF fail = "build"
             THEN Res(r1, "False", <<Err("RenderError")>>, <<"log_error">>, FALSE)
             ELSE IF fail = "render"
             THEN Res(r2, "False", <<Err("RenderError")>>, <<"log_error">>, FALSE)
             ELSE Res(r2, "True", <<Ev("renderingComplete", "STL")>>,
                      <<"log_image_processing">>, TRUE)

\* VTKRenderer.display_stl_model
display_stl_model(r, vtk_available, polydata, fail) ==
    IF ~vtk_available \/ ~r.renderer
    THEN Res(r, "False", <<>>, <<>>, FALSE)
    ELSE LET r1 == [r EXCEPT !.props = {},
                             !.current_polydata = polydata,
                             !.current_display_mode = "STL"]
             r2 == [r1 EXCEPT !.props = {"stl_actor"}]
         IN  IF fail = "build"
             THEN Res(r1, "False", <<Err("RenderError")>>, <<"log_error">>, FALSE)
             ELSE IF fail = "render"
             THEN Res(r2, "False", <<Err("RenderError")>>, <<"log_error">>, FALSE)
             ELSE Res(r2, "True", <<Ev("renderingComplete", "STL")>>,
                      <<"log_image_processing">>, TRUE)

\* update_window_level with one change: the display mode is not tested.
update_window_level_any_mode(r, window, level, fail) ==
    IF ~r.attrs
    THEN Res(r, "raise", <<>>, <<>>, FALSE)
    ELSE IF r.window_level = <<>>
    THEN Res(r, "False", <<>>, <<>>, FALSE)
    ELSE LET r1 == [r EXCEPT !.window_level =
                                 <<[window |-> window, level |-> level]>>]
         IN  IF fail = "render"
             THEN Res(r1, "False", <<>>, <<"log_error">>, FALSE)
             ELSE Res(r1, "True", <<>>, <<"log_image_processing">>, TRUE)

\* VTKRenderer.update_window_level.  Its except clause logs and returns
\* False without emitting a signal.
update_window_level(r, window, level, fail) ==
    IF ~r.attrs
    THEN Res(r, "raise", <<>>, <<>>, FALSE)
    ELSE IF r.window_level = <<>> \/ r.current_display_mode # "2D"
    THEN Res(r, "False", <<>>, <<>>, FALSE)
    ELSE LET r1 == [r EXCEPT !.window_level =
                                 <<[window |-> window, level |-> level]>>]
         IN  IF fail = "render"
             THEN Res(r1, "False", <<>>, <<"log_error">>, FALSE)
             ELSE Res(r1, "True", <<>>, <<"log_image_processing">>, TRUE)

\* VTKRenderer.update_3d_transfer_function.  With no transfer function
\* object yet, RemoveAllPoints raises inside the try.
update_3d_transfer_function(r, preset, fail) ==
    IF ~r.attrs
    THEN Res(r, "raise", <<>>, <<>>, FALSE)
    ELSE IF r.current_vtk_image = None \/ r.current_display_mode # "3D_VOLUME"
    THEN Res(r, "False", <<>>, <<>>, FALSE)
    ELSE IF r.color_func = <<>>
    THEN Res(r, "False", <<>>, <<"log_error">>, FALSE)
    ELSE LET r1 == setup_transfer_functions(r, r.current_vtk_image, preset)
         IN  IF fail = "render"
             THEN Res(r1, "False", <<>>, <<"log_error">>, FALSE)
             ELSE Res(r1, "True", <<>>, <<"log_image_processing">>, TRUE)

\* VTKRenderer.reset_camera
reset_camera(r) ==
    IF ~r.attrs
    THEN Res(r, "raise", <<>>, <<>>, FALSE)
    ELSE Res(r, "None", <<>>, <<>>, r.renderer)

\* clear_display with one change: the display mode is kept.
clear_display_keeping_mode(r) ==
    IF ~r.attrs
    THEN Res(r, "raise", <<>>, <<>>, FALSE)
    ELSE Res([r EXCEPT !.props = {},
                       !.current_vtk_image = None,
                       !.current_polydata = None],
             "None", <<>>, <<"log_system_event">>, r.renderer)

\* VTKRenderer.clear_display
clear_display(r) ==
    IF ~r.attrs
    THEN Res(r, "raise", <<>>, <<>>, FALSE)
    ELSE Res([r EXCEPT !.props = {},
                       !.current_vtk_image = None,
                       !.current_polydata = None,
                       !.current_display_mode = "None"],
             "None", <<>>, <<"log_system_event">>, r.renderer)

-----------------------------------------------------------------------------
(* State *)

VARIABLES
    SIMPLEITK_AVAILABLE,     \* image_processor.py: import SimpleITK worked
    VTK_AVAILABLE,           \* image_processor.py: import vtk worked
    RENDERER_VTK_AVAILABLE,  \* vtk_renderer.py: import vtk and vtk.qt worked
    image_processor,         \* the ImageProcessor's fields
    vtk_renderer,            \* the VTKRenderer's fields
    current_image_type,      \* MedicalImageViewerApp: "None", "DICOM", "STL"
    is_3d_view,              \* MedicalImageViewerApp.is_3d_view
    out,                     \* the last call: its name, result and emissions
    lock,                    \* MedicalLogger._lock: 0 (free) or its holder
    pc,                      \* per thread: where it is in a logger method
    call,                    \* per thread: the logger method it is running
    streams,                 \* the three log streams
    log_dir,                 \* the log files on disk, per stream and slot
    written                  \* per stream: how many records were written

libs   == <<SIMPLEITK_AVAILABLE, VTK_AVAILABLE, RENDERER_VTK_AVAILABLE>>
app    == <<image_processor, vtk_renderer, current_image_type, is_3d_view>>
logger == <<lock, pc, call, streams>>
disk   == <<log_dir, written>>
vars   == <<libs, app, out, logger, disk>>

NoCall ==
    [op |-> "init", args |-> [none |-> TRUE], outcome |-> "ok", ret |-> "None",
     ui |-> <<>>, log |-> <<>>, rendered |-> FALSE]

-----------------------------------------------------------------------------
(* MedicalImageViewerApp: the slots *)

\* What a slot leaves behind: the components, the controller's two fields,
\* the events emitted to the UI in order (the components' signals are
\* connected to the controller's, _connect_signals), the logger calls, and
\* the outcome: "ok", "failed", or "ignored" for a return that reports
\* nothing.
Slot(p, r, type, is3d, ui, log, rendered, outcome) ==
    [p |-> p, r |-> r, type |-> type, is3d |-> is3d, ui |-> ui, log |-> log,
     rendered |-> rendered, outcome |-> outcome]

Status(text) == Ev("statusUpdate", text)

\* _on_rendering_complete turns renderingComplete into a statusUpdate; the
\* other signals are forwarded under their own names.
Forward(events) ==
    [i \in 1..Len(events) |->
        IF events[i].sig = "renderingComplete"
        THEN Status("rendering complete")
        ELSE events[i]]

\* MedicalImageViewerApp.loadDicomSeries.  empty: QUrl(...).toLocalFile()
\* gave the empty string.
loadDicomSeries(p, r, type, is3d, sitk, vtk, rvtk, empty, d, conv, fail) ==
    IF empty
    THEN Slot(p, r, type, is3d, <<Err("InvalidPath")>>, <<>>, FALSE, "failed")
    ELSE
    LET v    == validate_dicom_integrity(sitk, d)
        l    == load_dicom_series(p, sitk, d)
        c    == convert_sitk_to_vtk(l.st, vtk, sitk, d.img, conv)
        s    == display_2d_image(r, rvtk, d.img, <<>>, <<>>, fail)
        ui0  == <<Status("Loading DICOM series")>>
        log0 == <<"log_user_action">>
    IN  IF ~v.valid
        THEN Slot(p, r, type, is3d, ui0 \o <<Err(v.msg)>>, log0 \o v.log,
                  FALSE, "failed")
        ELSE IF l.ret # "obj"
        THEN Slot(l.st, r, type, is3d,
                  ui0 \o Forward(l.ui) \o <<Err("LoadFailed")>>,
                  log0 \o v.log \o l.log, FALSE, "failed")
        ELSE IF c.ret # "obj"
        THEN Slot(c.st, r, type, is3d,
                  ui0 \o Forward(l.ui) \o Forward(c.ui) \o <<Err("ConvertFailed")>>,
                  log0 \o v.log \o l.log \o c.log, FALSE, "failed")
        ELSE IF s.ret # "True"
        THEN Slot(c.st, s.st, type, is3d,
                  ui0 \o Forward(l.ui) \o Forward(c.ui) \o Forward(s.ui)
                      \o <<Err("DisplayFailed")>>,
                  log0 \o v.log \o l.log \o c.log \o s.log, FALSE, "failed")
        ELSE Slot(c.st, s.st, "DICOM", FALSE,
                  ui0 \o Forward(l.ui) \o Forward(c.ui) \o Forward(s.ui)
                      \o <<Status("DICOM series loaded")>>,
                  log0 \o v.log \o l.log \o c.log \o s.log, TRUE, "ok")

\* MedicalImageViewerApp.loadStlFile
loadStlFile(p, r, type, is3d, vtk, rvtk, empty, f, fail) ==
    IF empty
    THEN Slot(p, r, type, is3d, <<Err("InvalidPath")>>, <<>>, FALSE, "failed")
    ELSE
    LET l    == load_stl_file(p, vtk, f)
        s    == display_stl_model(r, rvtk, f.mesh, fail)
        ui0  == <<Status("Loading STL file")>>
        log0 == <<"log_user_action">>
    IN  IF l.ret # "obj"
        THEN Slot(l.st, r, type, is3d,
                  ui0 \o Forward(l.ui) \o <<Err("LoadFailed")>>,
                  log0 \o l.log, FALSE, "failed")
        ELSE IF s.ret # "True"
        THEN Slot(l.st, s.st, type, is3d,
                  ui0 \o Forward(l.ui) \o Forward(s.ui) \o <<Err("DisplayFailed")>>,
                  log0 \o l.log \o s.log, FALSE, "failed")
        ELSE Slot(l.st, s.st, "STL", TRUE,
                  ui0 \o Forward(l.ui) \o Forward(s.ui)
                      \o <<Status("STL file loaded")>>,
                  log0 \o l.log \o s.log, TRUE, "ok")

\* switchTo2DView with one change: the window and level applied last are
\* passed on to display_2d_image.
switchTo2DView_keeping_window_level(p, r, type, is3d, rvtk, fail) ==
    IF type # "DICOM"
    THEN Slot(p, r, type, is3d, <<Err("InvalidMode")>>, <<>>, FALSE, "failed")
    ELSE IF p.current_vtk_image = None
    THEN Slot(p, r, type, is3d, <<Err("NoImage")>>, <<"log_user_action">>,
              FALSE, "failed")
    ELSE LET window == IF r.window_level = <<>> THEN <<>>
                       ELSE <<r.window_level[1].window>>
             level  == IF r.window_level = <<>> THEN <<>>
                       ELSE <<r.window_level[1].level>>
             s == display_2d_image(r, rvtk, p.current_vtk_image, window, level,
                                   fail)
         IN  IF s.ret # "True"
             THEN Slot(p, s.st, type, is3d,
                       Forward(s.ui) \o <<Err("DisplayFailed")>>,
                       <<"log_user_action">> \o s.log, FALSE, "failed")
             ELSE Slot(p, s.st, type, FALSE,
                       Forward(s.ui) \o <<Status("Switched to 2D view")>>,
                       <<"log_user_action">> \o s.log, TRUE, "ok")

\* MedicalImageViewerApp.switchTo2DView
switchTo2DView(p, r, type, is3d, rvtk, fail) ==
    IF type # "DICOM"
    THEN Slot(p, r, type, is3d, <<Err("InvalidMode")>>, <<>>, FALSE, "failed")
    ELSE IF p.current_vtk_image = None
    THEN Slot(p, r, type, is3d, <<Err("NoImage")>>, <<"log_user_action">>,
              FALSE, "failed")
    ELSE LET s == display_2d_image(r, rvtk, p.current_vtk_image, <<>>, <<>>, fail)
         IN  IF s.ret # "True"
             THEN Slot(p, s.st, type, is3d,
                       Forward(s.ui) \o <<Err("DisplayFailed")>>,
                       <<"log_user_action">> \o s.log, FALSE, "failed")
             ELSE Slot(p, s.st, type, FALSE,
                       Forward(s.ui) \o <<Status("Switched to 2D view")>>,
                       <<"log_user_action">> \o s.log, TRUE, "ok")

\* switchTo3DView with one change: the test of current_image_type is gone.
switchTo3DView_any_type(p, r, type, is3d, rvtk, fail) ==
    IF p.current_vtk_image = None
    THEN Slot(p, r, type, is3d, <<Err("NoImage")>>, <<"log_user_action">>,
              FALSE, "failed")
    ELSE LET s == display_3d_volume(r, rvtk, p.current_vtk_image, "default", fail)
         IN  IF s.ret # "True"
             THEN Slot(p, s.st, type, is3d,
                       Forward(s.ui) \o <<Err("DisplayFailed")>>,
                       <<"log_user_action">> \o s.log, FALSE, "failed")
             ELSE Slot(p, s.st, type, TRUE,
                       Forward(s.ui) \o <<Status("Switched to 3D view")>>,
                       <<"log_user_action">> \o s.log, TRUE, "ok")

\* MedicalImageViewerApp.switchTo3DView
switchTo3DView(p, r, type, is3d, rvtk, fail) ==
    IF type # "DICOM"
    THEN Slot(p, r, type, is3d, <<Err("InvalidMode")>>, <<>>, FALSE, "failed")
    ELSE IF p.current_vtk_image = None
    THEN Slot(p, r, type, is3d, <<Err("NoImage")>>, <<"log_user_action">>,
              FALSE, "failed")
    ELSE LET s == display_3d_volume(r, rvtk, p.current_vtk_image, "default", fail)
         IN  IF s.ret # "True"
             THEN Slot(p, s.st, type, is3d,
                       Forward(s.ui) \o <<Err("DisplayFailed")>>,
                       <<"log_user_action">> \o s.log, FALSE, "failed")
             ELSE Slot(p, s.st, type, TRUE,
                       Forward(s.ui) \o <<Status("Switched to 3D view")>>,
                       <<"log_user_action">> \o s.log, TRUE, "ok")

\* MedicalImageViewerApp.updateWindowLevel
updateWindowLevel(p, r, type, is3d, window, level, fail) ==
    IF type # "DICOM" \/ is3d
    THEN Slot(p, r, type, is3d, <<>>, <<>>, FALSE, "ignored")
    ELSE LET u == update_window_level(r, window, level, fail)
         IN  IF u.ret = "raise"
             THEN Slot(p, u.st, type, is3d, <<Err("Unexpected")>>,
                       <<"log_user_action", "log_error">>, FALSE, "failed")
             ELSE IF u.ret # "True"
             THEN Slot(p, u.st, type, is3d, <<Err("UpdateFailed")>>,
                       <<"log_user_action">> \o u.log, FALSE, "failed")
             ELSE Slot(p, u.st, type, is3d, <<>>,
                       <<"log_user_action">> \o u.log, u.rendered, "ok")

\* f"Applied 3D preset: {preset}"
AppliedPreset(preset) ==
    Status(CASE preset = "default" -> "Applied 3D preset: default"
             [] preset = "ct_bone" -> "Applied 3D preset: ct_bone"
             [] preset = "ct_soft_tissue" -> "Applied 3D preset: ct_soft_tissue"
             [] OTHER -> "Applied 3D preset: other")

\* MedicalImageViewerApp.update3DPreset
update3DPreset(p, r, type, is3d, preset, fail) ==
    IF type # "DICOM" \/ ~is3d
    THEN Slot(p, r, type, is3d, <<>>, <<>>, FALSE, "ignored")
    ELSE LET u == update_3d_transfer_function(r, preset, fail)
         IN  IF u.ret = "raise"
             THEN Slot(p, u.st, type, is3d, <<Err("Unexpected")>>,
                       <<"log_user_action", "log_error">>, FALSE, "failed")
             ELSE IF u.ret # "True"
             THEN Slot(p, u.st, type, is3d, <<Err("UpdateFailed")>>,
                       <<"log_user_action">> \o u.log, FALSE, "failed")
             ELSE Slot(p, u.st, type, is3d, <<AppliedPreset(preset)>>,
                       <<"log_user_action">> \o u.log, u.rendered, "ok")

\* MedicalImageViewerApp.resetCamera
resetCamera(p, r, type, is3d) ==
    LET c == reset_camera(r)
    IN  IF c.ret = "raise"
        THEN Slot(p, r, type, is3d, <<Err("Unexpected")>>,
                  <<"log_user_action", "log_error">>, FALSE, "failed")
        ELSE Slot(p, c.st, type, is3d, <<Status("Camera view reset")>>,
                  <<"log_user_action">>, c.rendered, "ok")

\* MedicalImageViewerApp.clearDisplay
clearDisplay(p, r, type, is3d) ==
    LET c == clear_display(r)
        d == clear_current_data(p)
    IN  IF c.ret = "raise"
        THEN Slot(p, r, type, is3d, <<Err("Unexpected")>>,
                  <<"log_user_action", "log_error">>, FALSE, "failed")
        ELSE Slot(d.st, c.st, "None", FALSE, <<Status("Display cleared")>>,
                  <<"log_user_action">> \o c.log \o d.log, c.rendered, "ok")

-----------------------------------------------------------------------------
(* MedicalLogger *)

\* Threads that call the logger, and how many calls each makes.
NumThreads == 2
MaxCalls   == 1

Threads == 1..NumThreads

Severities == {"INFO", "WARNING", "ERROR", "CRITICAL"}

\* The methods that take the lock and then call log_event.
Composite ==
    {"log_user_action", "log_file_operation", "log_image_processing",
     "log_system_event", "log_error"}

\* A call: the method, the severity argument of log_event (for the other
\* methods the severity they pass on: ERROR for log_error and for a result
\* other than "SUCCESS", else INFO), and the message <<thread, number>>.
LoggerCalls(t, n) ==
    { [method |-> "log_event", severity |-> s, msg |-> <<t, n>>] :
        s \in Severities }
    \cup
    { [method |-> m, severity |-> s, msg |-> <<t, n>>] :
        m \in Composite, s \in {"INFO", "ERROR"} }

IdleCall == [method |-> "none", severity |-> "INFO", msg |-> <<0, 0>>]

\* MedicalLogger.__init__: the lock is created free, the three streams are
\* opened, and log_event("SYSTEM", "Medical Logger initialized") has run.
StreamsInit ==
    [events |-> << [msg |-> <<0, 0>>, level |-> "INFO"] >>,
     errors |-> <<>>,
     audit  |-> <<>>]

LoggerInit ==
    /\ lock = 0
    /\ pc = [t \in Threads |-> "idle"]
    /\ call = [t \in Threads |-> IdleCall]
    /\ streams = StreamsInit

Line(c, level) == [msg |-> c.msg, level |-> level]

\* A thread calls a logger method.
Begin(t) ==
    /\ pc[t] = "idle"
    /\ \E n \in 1..MaxCalls :
         /\ \A s \in {"events", "errors", "audit"} :
              \A i \in 1..Len(streams[s]) : streams[s][i].msg # <<t, n>>
         /\ \E c \in LoggerCalls(t, n) :
              /\ (c.method \in {"log_user_action", "log_system_event"})
                    => c.severity = "INFO"
              /\ (c.method = "log_error") => c.severity = "ERROR"
              /\ call' = [call EXCEPT ![t] = c]
              /\ pc' = [pc EXCEPT ![t] =
                           IF c.method = "log_event" THEN "event_acquire"
                           ELSE "acquire"]
    /\ UNCHANGED <<lock, streams, libs, disk, app, out>>

\* "with self._lock:" in a composite method.  threading.Lock is not
\* reentrant: acquire blocks until the lock is free, whoever holds it.
Acquire(t) ==
    /\ pc[t] = "acquire"
    /\ lock = 0
    /\ lock' = t
    /\ pc' = [pc EXCEPT ![t] = "body"]
    /\ UNCHANGED <<call, streams, libs, disk, app, out>>

\* The writes a composite method makes before it calls log_event:
\* log_error writes error_logger.error and audit_logger.error, the others
\* audit_logger.info.
Body(t) ==
    /\ pc[t] = "body"
    /\ streams' =
         IF call[t].method = "log_error"
         THEN [streams EXCEPT
                  !.errors = Append(@, Line(call[t], "ERROR")),
                  !.audit  = Append(@, Line(call[t], "ERROR"))]
         ELSE [streams EXCEPT !.audit = Append(@, Line(call[t], "INFO"))]
    /\ pc' = [pc EXCEPT ![t] = "event_acquire"]
    /\ UNCHANGED <<lock, call, libs, disk, app, out>>

\* EventAcquire with one change: log_event does not wait for the lock.
EventAcquire_without_lock(t) ==
    /\ pc[t] = "event_acquire"
    /\ lock' = t
    /\ pc' = [pc EXCEPT ![t] = "event_write"]
    /\ UNCHANGED <<call, streams, libs, disk, app, out>>

\* "with self._lock:" in log_event.
EventAcquire(t) ==
    /\ pc[t] = "event_acquire"
    /\ lock = 0
    /\ lock' = t
    /\ pc' = [pc EXCEPT ![t] = "event_write"]
    /\ UNCHANGED <<call, streams, libs, disk, app, out>>

\* EventWrite with one change: the ERROR / CRITICAL branches do not go on to
\* the error logger.
EventWrite_events_only(t) ==
    /\ pc[t] = "event_write"
    /\ streams' = [streams EXCEPT
                      !.events = Append(@, Line(call[t], call[t].severity))]
    /\ pc' = [pc EXCEPT ![t] = "release"]
    /\ UNCHANGED <<lock, call, libs, disk, app, out>>

\* log_event: self.event_logger.<severity>(formatted_message)
EventWrite(t) ==
    /\ pc[t] = "event_write"
    /\ streams' = [streams EXCEPT
                      !.events = Append(@, Line(call[t], call[t].severity))]
    /\ pc' = [pc EXCEPT ![t] =
                 IF call[t].severity \in {"ERROR", "CRITICAL"}
                 THEN "error_write" ELSE "release"]
    /\ UNCHANGED <<lock, call, libs, disk, app, out>>

\* log_event: self.error_logger.<severity>(formatted_message)
ErrorWrite(t) ==
    /\ pc[t] = "error_write"
    /\ streams' = [streams EXCEPT
                      !.errors = Append(@, Line(call[t], call[t].severity))]
    /\ pc' = [pc EXCEPT ![t] = "release"]
    /\ UNCHANGED <<lock, call, libs, disk, app, out>>

\* The end of a "with self._lock:" block: of log_event, which returns to
\* the composite method that called it ("outer_release") or to the caller,
\* and of a composite method.
Release(t) ==
    /\ pc[t] \in {"release", "outer_release"}
    /\ lock' = 0
    /\ pc' = [pc EXCEPT ![t] =
                 IF pc[t] = "release" /\ call[t].method # "log_event"
                 THEN "outer_release" ELSE "idle"]
    /\ call' = [call EXCEPT ![t] =
                   IF pc'[t] = "idle" THEN IdleCall ELSE @]
    /\ UNCHANGED <<streams, libs, disk, app, out>>

LoggerStep(t) ==
    \/ Begin(t)
    \/ Acquire(t)
    \/ Body(t)
    \/ EventAcquire(t)
    \/ EventWrite(t)
    \/ ErrorWrite(t)
    \/ Release(t)

-----------------------------------------------------------------------------
(* MedicalLogger: the log files *)

\* _setup_loggers gives each of the three loggers one RotatingFileHandler
\* on medical_<stream>.log with maxBytes = max_file_size and backupCount =
\* backup_count.  Slot 0 of a stream is the active file, slot k its backup
\* medical_<stream>.log.k.  Records are numbered per stream in the order
\* written; a file is old when its modification time lies before the
\* retention horizon of cleanup_old_logs.
MaxFileRecords == 1
backup_count == 5
MaxRecords == (backup_count + 2) * MaxFileRecords

StreamNames == {"events", "errors", "audit"}
Slots == 0..backup_count

NoFile == [exists |-> FALSE, records |-> <<>>, old |-> FALSE]
NewFile == [exists |-> TRUE, records |-> <<>>, old |-> FALSE]

\* The log directory after MedicalLogger.__init__ in a fresh directory: the
\* handlers have opened the three active files and log_event has written
\* the initialisation record.
DiskInit ==
    /\ log_dir = [s \in StreamNames |->
                    [k \in Slots |->
                        IF k # 0 THEN NoFile
                        ELSE IF s = "events"
                             THEN [NewFile EXCEPT !.records = <<1>>]
                             ELSE NewFile]]
    /\ written = [s \in StreamNames |-> IF s = "events" THEN 1 ELSE 0]

\* RotatingFileHandler.doRollover, the loop over the backups from
\* backup_count - 1 down to 1: an existing backup k replaces backup k + 1.
RECURSIVE ShiftBackups(_, _)
ShiftBackups(f, k) ==
    IF k = 0 THEN f
    ELSE ShiftBackups(IF f[k].exists
                      THEN [f EXCEPT ![k + 1] = f[k], ![k] = NoFile]
                      ELSE f,
                      k - 1)

\* RotatingFileHandler.doRollover: the backups move up one slot, what was
\* in the last slot is removed, the active file becomes backup 1 and a new
\* active file is opened.  Renaming keeps a file's modification time.
doRollover(f) ==
    LET g == ShiftBackups(f, backup_count - 1)
    IN  [g EXCEPT ![1] = IF g[0].exists THEN g[0] ELSE NoFile,
                  ![0] = NewFile]

\* RotatingFileHandler.emit: roll over when the active file is full, then
\* write the record.  Lines written to a file whose name was unlinked are
\* under no name of the directory.
emit(f, rec) ==
    IF ~f[0].exists THEN f
    ELSE LET g == IF Len(f[0].records) >= MaxFileRecords
                  THEN doRollover(f) ELSE f
         IN  [g EXCEPT ![0] = [exists |-> TRUE,
                               records |-> Append(g[0].records, rec),
                               old |-> FALSE]]

\* The records of a stream that are in some file of the directory.
OnDisk(dir, s) ==
    UNION {{dir[s][k].records[i] : i \in 1..Len(dir[s][k].records)} :
             k \in {j \in Slots : dir[s][j].exists}}

-----------------------------------------------------------------------------
(* Spec: the Application Controller *)

\* The libraries a process finds.  vtk_renderer.py also needs vtk.qt, so
\* its flag can be False when image_processor.py's is True.
LibsInit ==
    /\ SIMPLEITK_AVAILABLE \in BOOLEAN
    /\ VTK_AVAILABLE \in BOOLEAN
    /\ RENDERER_VTK_AVAILABLE \in BOOLEAN
    /\ RENDERER_VTK_AVAILABLE => VTK_AVAILABLE

\* MedicalImageViewerApp.__init__ followed by main()'s
\* medical_app.initialize_vtk_widget(), whatever its outcome.
Init ==
    /\ DiskInit
    /\ LibsInit
    /\ image_processor = ImageProcessorInit
    /\ \E o \in InitOutcomes :
         vtk_renderer =
            initialize_render_window(VTKRendererInit(RENDERER_VTK_AVAILABLE),
                                     RENDERER_VTK_AVAILABLE, o).st
    /\ current_image_type = "None"
    /\ is_3d_view = FALSE
    /\ out = NoCall
    /\ LoggerInit

\* What kind of path a load was given.
PathOf(empty, exists) ==
    IF empty THEN "empty" ELSE IF exists THEN "present" ELSE "absent"

\* A slot ran: its effect on the components and the controller.  out.args
\* keeps of the slot's arguments what the properties below refer to.
Ran(op, args, s) ==
    /\ image_processor' = s.p
    /\ vtk_renderer' = s.r
    /\ current_image_type' = s.type
    /\ is_3d_view' = s.is3d
    /\ out' = [op |-> op, args |-> args, outcome |-> s.outcome,
               ret |-> "None", ui |-> s.ui, log |-> s.log,
               rendered |-> s.rendered]
    /\ UNCHANGED <<libs, disk, logger>>

\* The inputs of loadDicomSeries.  An input that the slot cannot reach (the
\* directory of an empty URL, the conversion of a load that fails, the
\* display after a conversion that fails) is given one value only.
LoadDicomInputs ==
    { i \in [empty : BOOLEAN, d : Directories, conv : {"ok", "raises"},
             fail : DisplayFails] :
        /\ i.empty => (~i.d.exists /\ i.d.scan = "empty")
        /\ (i.empty \/ i.d.scan # "ok" \/ i.d.read # "ok")
              => (i.conv = "ok" /\ i.fail = "none")
        /\ (i.conv # "ok") => (i.fail = "none") }

Do_loadDicomSeries ==
    \E i \in LoadDicomInputs :
        Ran("loadDicomSeries", [path |-> PathOf(i.empty, i.d.exists)],
            loadDicomSeries(image_processor, vtk_renderer, current_image_type,
                            is_3d_view, SIMPLEITK_AVAILABLE, VTK_AVAILABLE,
                            RENDERER_VTK_AVAILABLE, i.empty, i.d, i.conv,
                            i.fail))

LoadStlInputs ==
    { i \in [empty : BOOLEAN, f : StlFiles, fail : DisplayFails] :
        /\ i.empty => ~i.f.exists
        /\ (i.empty \/ ~i.f.exists \/ i.f.read # "ok") => (i.fail = "none") }

Do_loadStlFile ==
    \E i \in LoadStlInputs :
        Ran("loadStlFile", [path |-> PathOf(i.empty, i.f.exists)],
            loadStlFile(image_processor, vtk_renderer, current_image_type,
                        is_3d_view, VTK_AVAILABLE, RENDERER_VTK_AVAILABLE,
                        i.empty, i.f, i.fail))

Do_switchTo2DView ==
    \E fail \in DisplayFails :
        Ran("switchTo2DView", [none |-> TRUE],
            switchTo2DView(image_processor, vtk_renderer, current_image_type,
                           is_3d_view, RENDERER_VTK_AVAILABLE, fail))

Do_switchTo3DView ==
    \E fail \in DisplayFails :
        Ran("switchTo3DView", [none |-> TRUE],
            switchTo3DView(image_processor, vtk_renderer, current_image_type,
                           is_3d_view, RENDERER_VTK_AVAILABLE, fail))

Do_updateWindowLevel ==
    \E window \in 1..MaxWL, level \in 1..MaxWL, fail \in RenderFails :
        Ran("updateWindowLevel", [none |-> TRUE],
            updateWindowLevel(image_processor, vtk_renderer,
                              current_image_type, is_3d_view,
                              window, level, fail))

Do_update3DPreset ==
    \E preset \in Presets, fail \in RenderFails :
        Ran("update3DPreset", [preset |-> preset],
            update3DPreset(image_processor, vtk_renderer, current_image_type,
                           is_3d_view, preset, fail))

Do_resetCamera ==
    Ran("resetCamera", [none |-> TRUE],
        resetCamera(image_processor, vtk_renderer, current_image_type,
                    is_3d_view))

Do_clearDisplay ==
    Ran("clearDisplay", [none |-> TRUE],
        clearDisplay(image_processor, vtk_renderer, current_image_type,
                     is_3d_view))

Next ==
    \/ Do_loadDicomSeries
    \/ Do_loadStlFile
    \/ Do_switchTo2DView
    \/ Do_switchTo3DView
    \/ Do_updateWindowLevel
    \/ Do_update3DPreset
    \/ Do_resetCamera
    \/ Do_clearDisplay

Spec == Init /\ [][Next]_vars

-----------------------------------------------------------------------------
(* LoaderSpec: ImageProcessor's methods called directly *)

ComponentInit ==
    /\ DiskInit
    /\ LibsInit
    /\ image_processor = ImageProcessorInit
    /\ vtk_renderer = VTKRendererInit(RENDERER_VTK_AVAILABLE)
    /\ current_image_type = "None"
    /\ is_3d_view = FALSE
    /\ out = NoCall
    /\ LoggerInit

\* How a component method ended, from what it returned.
OutcomeOf(ret) == IF ret \in {"obj", "True", "None"} THEN "ok" ELSE "failed"

Called(op, args, res) ==
    out' = [op |-> op, args |-> args, outcome |-> OutcomeOf(res.ret),
            ret |-> res.ret, ui |-> res.ui, log |-> res.log,
            rendered |-> res.rendered]

LoaderCalled(op, args, res) ==
    /\ image_processor' = res.st
    /\ Called(op, args, res)
    /\ UNCHANGED <<libs, disk, vtk_renderer, current_image_type, is_3d_view,
                   logger>>

Call_load_dicom_series ==
    \E d \in Directories :
        LoaderCalled("load_dicom_series", [d |-> d],
            load_dicom_series(image_processor, SIMPLEITK_AVAILABLE, d))

Call_load_stl_file ==
    \E f \in StlFiles :
        LoaderCalled("load_stl_file", [f |-> f],
            load_stl_file(image_processor, VTK_AVAILABLE, f))

\* The caller passes an image it holds: any decoded image.
Call_convert_sitk_to_vtk ==
    \E img \in ImageIds, conv \in {"ok", "raises"} :
        LoaderCalled("convert_sitk_to_vtk", [sitk_image |-> img],
            convert_sitk_to_vtk(image_processor, VTK_AVAILABLE,
                                SIMPLEITK_AVAILABLE, img, conv))

Call_clear_current_data ==
    LoaderCalled("clear_current_data", [none |-> TRUE],
                 clear_current_data(image_processor))

LoaderNext ==
    \/ Call_load_dicom_series
    \/ Call_load_stl_file
    \/ Call_convert_sitk_to_vtk
    \/ Call_clear_current_data

LoaderSpec == ComponentInit /\ [][LoaderNext]_vars

-----------------------------------------------------------------------------
(* RendererSpec: VTKRenderer's methods called directly *)

\* An optional window or level: None or a number (in halves).
WLArgs == {<<>>} \cup {<<x>> : x \in 1..MaxWL}

RendererCalled(op, args, res) ==
    /\ vtk_renderer' = res.st
    /\ Called(op, args, res)
    /\ UNCHANGED <<libs, disk, image_processor, current_image_type, is_3d_view,
                   logger>>

Call_initialize_render_window ==
    \E o \in InitOutcomes :
        RendererCalled("initialize_render_window", [none |-> TRUE],
            initialize_render_window(vtk_renderer, RENDERER_VTK_AVAILABLE, o))

Call_display_2d_image ==
    \E img \in ImageIds, window \in WLArgs, level \in WLArgs,
       fail \in DisplayFails :
        RendererCalled("display_2d_image",
            [vtk_image |-> img, window |-> window, level |-> level],
            display_2d_image(vtk_renderer, RENDERER_VTK_AVAILABLE, img,
                             window, level, fail))

Call_display_3d_volume ==
    \E img \in ImageIds, preset \in Presets, fail \in DisplayFails :
        RendererCalled("display_3d_volume",
            [vtk_image |-> img, preset |-> preset],
            display_3d_volume(vtk_renderer, RENDERER_VTK_AVAILABLE, img,
                              preset, fail))

Call_display_stl_model ==
    \E mesh \in MeshIds, fail \in DisplayFails :
        RendererCalled("display_stl_model", [polydata |-> mesh],
            display_stl_model(vtk_renderer, RENDERER_VTK_AVAILABLE, mesh,
                              fail))

Call_update_window_level ==
    \E window \in 1..MaxWL, level \in 1..MaxWL, fail \in RenderFails :
        RendererCalled("update_window_level",
            [window |-> window, level |-> level],
            update_window_level(vtk_renderer, window, level, fail))

Call_update_3d_transfer_function ==
    \E preset \in Presets, fail \in RenderFails :
        RendererCalled("update_3d_transfer_function", [preset |-> preset],
            update_3d_transfer_function(vtk_renderer, preset, fail))

Call_reset_camera ==
    RendererCalled("reset_camera", [none |-> TRUE], reset_camera(vtk_renderer))

Call_clear_display ==
    RendererCalled("clear_display", [none |-> TRUE],
                   clear_display(vtk_renderer))

RendererNext ==
    \/ Call_initialize_render_window
    \/ Call_display_2d_image
    \/ Call_display_3d_volume
    \/ Call_display_stl_model
    \/ Call_update_window_level
    \/ Call_update_3d_transfer_function
    \/ Call_reset_camera
    \/ Call_clear_display

RendererSpec == ComponentInit /\ [][RendererNext]_vars

-----------------------------------------------------------------------------
(* LoggerSpec: MedicalLogger and the threads that call it *)

LoggerOnlyInit ==
    /\ DiskInit
    /\ SIMPLEITK_AVAILABLE = TRUE
    /\ VTK_AVAILABLE = TRUE
    /\ RENDERER_VTK_AVAILABLE = TRUE
    /\ image_processor = ImageProcessorInit
    /\ vtk_renderer = VTKRendererInit(TRUE)
    /\ current_image_type = "None"
    /\ is_3d_view = FALSE
    /\ out = NoCall
    /\ LoggerInit

LoggerNext ==
    \E t \in Threads :
        \/ Begin(t)
        \/ Acquire(t)
        \/ Body(t)
        \/ EventAcquire(t)
        \/ EventWrite(t)
        \/ ErrorWrite(t)
        \/ Release(t)

LoggerSpec == LoggerOnlyInit /\ [][LoggerNext]_vars

\* Every thread that can take a step is scheduled.
LoggerFairSpec ==
    LoggerSpec /\ \A t \in Threads : WF_vars(LoggerStep(t))

-----------------------------------------------------------------------------
(* RotationSpec: MedicalLogger's files under writes, rotation and purge *)

\* One thread calls log_event and cleanup_old_logs while time passes; the
\* files of the log directory are followed, the lines of the streams are
\* LoggerSpec's matter.

Called_logger(op, args) == [NoCall EXCEPT !.op = op, !.args = args]

\* log_event(type, message, severity): one record to the event logger's
\* handler and, for ERROR and CRITICAL, one to the error logger's.
Call_log_event(severity) ==
    /\ lock = 0
    /\ written["events"] < MaxRecords
    /\ LET e == written["events"] + 1
           r == written["errors"] + 1
           is_error == severity \in {"ERROR", "CRITICAL"}
       IN  /\ log_dir' =
                [log_dir EXCEPT
                    !["events"] = emit(@, e),
                    !["errors"] = IF is_error THEN emit(@, r) ELSE @]
           /\ written' =
                [written EXCEPT
                    !["events"] = e,
                    !["errors"] = IF is_error THEN r ELSE @]
    /\ out' = Called_logger("log_event", [severity |-> severity])
    /\ UNCHANGED <<libs, app, lock, pc, call, streams>>

\* No record is written for longer than the retention horizon: every file
\* of the directory is now older than the horizon.
HorizonPasses ==
    /\ \E s \in StreamNames, k \in Slots :
          log_dir[s][k].exists /\ ~log_dir[s][k].old
    /\ log_dir' = [s \in StreamNames |->
                     [k \in Slots |->
                        IF log_dir[s][k].exists
                        THEN [log_dir[s][k] EXCEPT !.old = TRUE]
                        ELSE log_dir[s][k]]]
    /\ out' = Called_logger("time", [none |-> TRUE])
    /\ UNCHANGED <<libs, app, logger, written>>

\* cleanup_old_logs(days_to_keep): the first file of glob("*.log*") that is
\* older than the horizon is unlinked; the log_system_event that follows
\* takes the lock, writes its audit line and calls log_event, which waits
\* for the lock its own thread holds, so the loop goes no further.  The
\* order of glob is the directory's.  With no old file nothing happens.
Call_cleanup_old_logs ==
    /\ \/ /\ \E s \in StreamNames, k \in Slots :
               /\ log_dir[s][k].exists
               /\ log_dir[s][k].old
               /\ LET removed == [log_dir EXCEPT ![s][k] = NoFile]
                  IN  IF lock = 0 /\ written["audit"] < MaxRecords
                      THEN /\ log_dir' =
                                [removed EXCEPT
                                    !["audit"] = emit(@, written["audit"] + 1)]
                           /\ written' =
                                [written EXCEPT !["audit"] = @ + 1]
                      ELSE /\ log_dir' = removed
                           /\ UNCHANGED written
          /\ lock' = 1
       \/ /\ \A s \in StreamNames, k \in Slots :
               ~(log_dir[s][k].exists /\ log_dir[s][k].old)
          /\ UNCHANGED <<lock, disk>>
    /\ out' = Called_logger("cleanup_old_logs", [none |-> TRUE])
    /\ UNCHANGED <<libs, app, pc, call, streams>>

MaxCount == 2

\* Python's lines[start:] for a list: a negative start counts from the
\* end, and either is clamped to the list.
SliceFrom(lines, start) ==
    LET n == Len(lines)
        s == IF start < 0
             THEN (IF start + n < 0 THEN 0 ELSE start + n)
             ELSE (IF start > n THEN n ELSE start)
    IN  SubSeq(lines, s + 1, n)

\* The lines of medical_events.log, the active file of the event stream;
\* none when the file does not exist.
EventLogLines(dir) ==
    IF dir["events"][0].exists THEN dir["events"][0].records ELSE <<>>

\* MedicalLogger.get_recent_events:
\*   events = lines[-count:] if len(lines) > count else lines
get_recent_events(dir, count) ==
    LET lines == EventLogLines(dir)
    IN  IF Len(lines) > count THEN SliceFrom(lines, 0 - count) ELSE lines

Call_get_recent_events ==
    /\ \E count \in 0..MaxCount :
          out' = [op |-> "get_recent_events", args |-> [count |-> count],
                  outcome |-> "ok", ret |-> "list", ui |-> <<>>,
                  log |-> <<>>, rendered |-> FALSE,
                  events |-> get_recent_events(log_dir, count)]
    /\ UNCHANGED <<libs, app, logger, disk>>

RotationNext ==
    \/ \E severity \in Severities : Call_log_event(severity)
    \/ HorizonPasses
    \/ Call_cleanup_old_logs
    \/ Call_get_recent_events

RotationSpec == LoggerOnlyInit /\ [][RotationNext]_vars

-----------------------------------------------------------------------------
(* Properties *)

ErrorKinds(ui) ==
    {ui[i].arg : i \in {j \in 1..Len(ui) : ui[j].sig = "errorOccurred"}}

HasError(ui) == ErrorKinds(ui) # {}

\* A loaded volume, a loaded mesh is resident in the Image Loader.
VolumeResident ==
    \/ image_processor.current_sitk_image # None
    \/ image_processor.current_vtk_image # None

MeshResident == image_processor.current_polydata # None

UiOperations ==
    {"loadDicomSeries", "loadStlFile", "switchTo2DView", "switchTo3DView",
     "updateWindowLevel", "update3DPreset", "clearDisplay"}

\* C1: a UI operation that fails leaves the resident volume, the resident
\* mesh, the metadata map, the display mode, current_image_type and
\* is_3d_view as they were before it.  (Every slot is enabled in every
\* state, so a later operation is always accepted.)
C1_FailedOperationChangesNothing ==
    [][ (out'.op \in UiOperations /\ out'.outcome = "failed")
          => /\ image_processor' = image_processor
             /\ vtk_renderer'.current_display_mode
                   = vtk_renderer.current_display_mode
             /\ current_image_type' = current_image_type
             /\ is_3d_view' = is_3d_view ]_vars

\* C2: at most one of a loaded volume and a loaded mesh is resident.
C2_AtMostOneResident == ~(VolumeResident /\ MeshResident)

\* C3: the display mode matches the resident data: 2D and 3D-Volume need a
\* resident volume, STL-Mesh needs a resident mesh, and with no resident
\* data the mode is None.
C3_ModeMatchesResidentData ==
    /\ (vtk_renderer.current_display_mode \in {"2D", "3D_VOLUME"})
          => VolumeResident
    /\ (vtk_renderer.current_display_mode = "STL") => MeshResident
    /\ (~VolumeResident /\ ~MeshResident)
          => vtk_renderer.current_display_mode = "None"

C3_Witness ==
    /\ out.op = "switchTo3DView"
    /\ out.outcome = "ok"
    /\ vtk_renderer.current_display_mode = "3D_VOLUME"
    /\ VolumeResident

\* C4: a logger method called while the mutex is free returns, with the
\* mutex released.
C4_LoggerCallReturns ==
    \A t \in Threads :
        (pc[t] \in {"acquire", "event_acquire"} /\ lock = 0)
            ~> (pc[t] = "idle" /\ lock # t)

\* What clearDisplay is to leave: mode None, an empty scene, no resident
\* data, an empty metadata map, no loaded type and the 2D flag.
Cleared ==
    /\ vtk_renderer.current_display_mode = "None"
    /\ vtk_renderer.props = {}
    /\ ~VolumeResident
    /\ ~MeshResident
    /\ image_processor.image_metadata = EmptyMetadata
    /\ current_image_type = "None"
    /\ is_3d_view = FALSE

C7_UpdatePresetByMode ==
    [][ (out'.op = "update_3d_transfer_function")
          => IF vtk_renderer.current_display_mode # "3D_VOLUME"
             THEN /\ out'.outcome = "failed"
                  /\ vtk_renderer'.color_func = vtk_renderer.color_func
                  /\ vtk_renderer'.opacity_func = vtk_renderer.opacity_func
                  /\ vtk_renderer'.props = vtk_renderer.props
                  /\ vtk_renderer'.current_display_mode
                        = vtk_renderer.current_display_mode
             ELSE /\ vtk_renderer'.color_func # <<>>
                  /\ vtk_renderer'.opacity_func # <<>>
                  /\ vtk_renderer' =
                        setup_transfer_functions(vtk_renderer,
                            vtk_renderer.current_vtk_image, out'.args.preset)
                  /\ vtk_renderer'.current_display_mode = "3D_VOLUME" ]_vars

\* C8: loadDicomSeries on a directory that does not exist emits the NotFound
\* error and no error of another kind (SimpleITK being importable).
C8_AbsentDirectoryIsNotFound ==
    (SIMPLEITK_AVAILABLE /\ out.op = "loadDicomSeries"
        /\ out.args.path = "absent")
      => ErrorKinds(out.ui) = {"NotFound"}

\* C9: load_dicom_series on an existing directory in which the reader finds
\* no series emits the NoSeries error and leaves every field of the
\* ImageProcessor as it was; so does loadDicomSeries, which reports the same
\* from validate_dicom_integrity.
C9_NoSeriesChangesNothing ==
    /\ [][ (out'.op = "load_dicom_series" /\ SIMPLEITK_AVAILABLE
              /\ out'.args.d.exists /\ out'.args.d.scan = "empty")
            => /\ out'.ui = <<Err("NoSeries")>>
               /\ out'.ret = "None"
               /\ image_processor' = image_processor ]_vars
    /\ [](\A d \in Directories :
            (SIMPLEITK_AVAILABLE /\ d.exists /\ d.scan = "empty")
              => LET s == loadDicomSeries(image_processor, vtk_renderer,
                              current_image_type, is_3d_view,
                              SIMPLEITK_AVAILABLE, VTK_AVAILABLE,
                              RENDERER_VTK_AVAILABLE, FALSE, d, "ok", "none")
                 IN  /\ ErrorKinds(s.ui) = {"NoSeries"}
                     /\ s.p = image_processor
                     /\ s.outcome = "failed")

C9_Witness ==
    /\ out.op = "load_dicom_series"
    /\ SIMPLEITK_AVAILABLE
    /\ out.args.d.exists
    /\ out.args.d.scan = "empty"
    /\ out.ui = <<Err("NoSeries")>>
    /\ image_processor.current_sitk_image # None
    /\ image_processor.image_metadata # EmptyMetadata

\* C10: after a display_2d_image that succeeded, the window applied is the
\* one supplied, or max - min of the scalar range when none was; the level
\* applied is the one supplied, or (max + min)/2 when none was.  Window and
\* level are in halves.
C10_DefaultWindowLevel ==
    (out.op = "display_2d_image" /\ out.ret = "True")
      => LET min == ScalarRange(out.args.vtk_image)[1]
             max == ScalarRange(out.args.vtk_image)[2]
             wl  == vtk_renderer.window_level[1]
         IN  /\ vtk_renderer.window_level # <<>>
             /\ IF out.args.window = <<>>
                THEN wl.window = 2 * (max - min)
                ELSE wl.window = out.args.window[1]
             /\ IF out.args.level = <<>>
                THEN wl.level = max + min
                ELSE wl.level = out.args.level[1]

C10_Witness ==
    /\ out.op = "display_2d_image"
    /\ out.ret = "True"
    /\ out.args.vtk_image = 2
    /\ out.args.window = <<>>
    /\ out.args.level # <<>>
    /\ vtk_renderer.window_level[1].window = 2

\* C11 as claimed: in mode 3D_VOLUME, after update_3d_transfer_function
\* succeeded with preset p of default, ct_bone, ct_soft_tissue, the color
\* function holds exactly 4 nodes and the opacity function exactly 4, at the
\* fractions of the scalar range defined for p (positions in tenths), and
\* no other node.
C11_PresetBreakpoints ==
    (out.op = "update_3d_transfer_function" /\ out.ret = "True"
        /\ out.args.preset \in {"default", "ct_bone", "ct_soft_tissue"})
      => LET p     == out.args.preset
             min   == ScalarRange(vtk_renderer.current_vtk_image)[1]
             max   == ScalarRange(vtk_renderer.current_vtk_image)[2]
             At(F) == {10 * min + (max - min) * f : f \in F}
             cf    == IF p = "ct_bone" THEN {0, 2, 5, 10}
                      ELSE IF p = "ct_soft_tissue" THEN {0, 3, 7, 10}
                      ELSE {0, 3, 6, 10}
             of    == IF p = "ct_bone" THEN {0, 1, 4, 10}
                      ELSE IF p = "ct_soft_tissue" THEN {0, 2, 5, 10}
                      ELSE {0, 1, 3, 10}
             color   == vtk_renderer.color_func[1]
             opacity == vtk_renderer.opacity_func[1]
         IN  /\ vtk_renderer.current_display_mode = "3D_VOLUME"
             /\ Cardinality(color) = 4
             /\ Cardinality(opacity) = 4
             /\ {q[1] : q \in color} = At(cf)
             /\ {q[1] : q \in opacity} = At(of)

\* C11 as amended: the same for a volume whose scalar range is not a single
\* value (max > min); for a volume of one value (max = min) each function
\* holds one node, at that value, with the preset's last color or opacity.
C11_PresetBreakpointsOfRange ==
    (out.op = "update_3d_transfer_function" /\ out.ret = "True"
        /\ out.args.preset \in {"default", "ct_bone", "ct_soft_tissue"})
      => LET p     == out.args.preset
             min   == ScalarRange(vtk_renderer.current_vtk_image)[1]
             max   == ScalarRange(vtk_renderer.current_vtk_image)[2]
             At(F) == {10 * min + (max - min) * f : f \in F}
             cf    == IF p = "ct_bone" THEN {0, 2, 5, 10}
                      ELSE IF p = "ct_soft_tissue" THEN {0, 3, 7, 10}
                      ELSE {0, 3, 6, 10}
             of    == IF p = "ct_bone" THEN {0, 1, 4, 10}
                      ELSE IF p = "ct_soft_tissue" THEN {0, 2, 5, 10}
                      ELSE {0, 1, 3, 10}
             color   == vtk_renderer.color_func[1]
             opacity == vtk_renderer.opacity_func[1]
         IN  /\ vtk_renderer.current_display_mode = "3D_VOLUME"
             /\ {q[1] : q \in color} = At(cf)
             /\ {q[1] : q \in opacity} = At(of)
             /\ Cardinality(color) = Cardinality(At(cf))
             /\ Cardinality(opacity) = Cardinality(At(of))
             /\ IF max > min
                THEN Cardinality(color) = 4 /\ Cardinality(opacity) = 4
                ELSE /\ color = {<<10 * max, <<100, 100, 100>> >>}
                     /\ opacity = {<<10 * max,
                                     IF p = "ct_soft_tissue" THEN 8 ELSE 10>>}

C11_Witness ==
    /\ out.op = "update_3d_transfer_function"
    /\ out.ret = "True"
    /\ out.args.preset = "ct_bone"
    /\ vtk_renderer.current_vtk_image = 2
    /\ Cardinality(vtk_renderer.color_func[1]) = 4

\* C12: the scene never holds more than one actor, and after a display
\* method succeeded it holds exactly the actor of the mode entered: the image
\* actor for 2D, the volume for 3D_VOLUME, the mesh actor for STL; after
\* clear_display it holds none.
C12_OneActorPerMode ==
    /\ Cardinality(vtk_renderer.props) <= 1
    /\ (out.op = "display_2d_image" /\ out.ret = "True")
          => /\ vtk_renderer.props = {"image_actor"}
             /\ vtk_renderer.current_display_mode = "2D"
    /\ (out.op = "display_3d_volume" /\ out.ret = "True")
          => /\ vtk_renderer.props = {"volume"}
             /\ vtk_renderer.current_display_mode = "3D_VOLUME"
    /\ (out.op = "display_stl_model" /\ out.ret = "True")
          => /\ vtk_renderer.props = {"stl_actor"}
             /\ vtk_renderer.current_display_mode = "STL"
    /\ (out.op = "clear_display" /\ out.outcome = "ok")
          => vtk_renderer.props = {}

C12_Witness ==
    /\ out.op = "display_stl_model"
    /\ out.ret = "True"
    /\ vtk_renderer.props = {"stl_actor"}
    /\ vtk_renderer.window_level # <<>>
    /\ vtk_renderer.color_func # <<>>

\* C13: every slot of the controller that fails, a call in the wrong view
\* (which the slot ignores) included, has emitted at least one error event
\* when it returns.
C13_FailureEmitsError ==
    (out.op \in UiOperations \cup {"resetCamera"}
        /\ out.outcome \in {"failed", "ignored"})
      => HasError(out.ui)

\* C14: every slot of the controller that fails has written at least one
\* ERROR record when it returns.  The only ERROR records the slots and the
\* components write are those of log_error.
C14_FailureLogsError ==
    (out.op \in UiOperations /\ out.outcome = "failed")
      => \E i \in 1..Len(out.log) : out.log[i] = "log_error"

\* The methods of VTKRenderer that display, update or clear.
DisplayOperations ==
    {"display_2d_image", "display_3d_volume", "display_stl_model",
     "update_window_level", "update_3d_transfer_function", "reset_camera",
     "clear_display"}

\* C15: a display operation called while the graphics library is missing or
\* the render window was never initialised reports failure without raising,
\* writes an error record, emits an error event and changes nothing of the
\* renderer.
C15_RendererUnavailable ==
    [][ (out'.op \in DisplayOperations
            /\ (~RENDERER_VTK_AVAILABLE \/ ~vtk_renderer.renderer))
          => /\ out'.outcome = "failed"
             /\ out'.ret # "raise"
             /\ HasError(out'.ui)
             /\ \E i \in 1..Len(out'.log) : out'.log[i] = "log_error"
             /\ vtk_renderer' = vtk_renderer ]_vars

\* The lines of a stream that carry message m.
LinesOf(stream, m) == {i \in 1..Len(stream) : stream[i].msg = m}

\* C16: when a log_event call returns, the event stream holds exactly one
\* line of its message, at the severity given, and the error stream holds
\* one line of it if the severity is ERROR or CRITICAL and none otherwise.
C16_LogEventLines ==
    [][ \A t \in Threads :
          (pc[t] = "release" /\ pc'[t] = "idle" /\ call[t].method = "log_event")
            => LET m == call[t].msg
                   s == call[t].severity
               IN  /\ Cardinality(LinesOf(streams'.events, m)) = 1
                   /\ \A i \in LinesOf(streams'.events, m) :
                         streams'.events[i].level = s
                   /\ Cardinality(LinesOf(streams'.errors, m))
                         = IF s \in {"ERROR", "CRITICAL"} THEN 1 ELSE 0
                   /\ \A i \in LinesOf(streams'.errors, m) :
                         streams'.errors[i].level = s ]_vars

C16_Witness ==
    /\ lock = 0
    /\ \E t \in Threads :
         /\ pc[t] = "idle"
         /\ \E i \in 1..Len(streams.events), j \in 1..Len(streams.errors) :
              /\ streams.events[i] = [msg |-> <<t, 1>>, level |-> "CRITICAL"]
              /\ streams.errors[j] = [msg |-> <<t, 1>>, level |-> "CRITICAL"]
    /\ \E i \in 1..Len(streams.events) : streams.events[i].level = "WARNING"

\* C17: every line of the event stream and of the error stream has a line
\* of the same message in the audit stream.
C17_AuditHoldsEveryRecord ==
    /\ \A i \in 1..Len(streams.events) :
          LinesOf(streams.audit, streams.events[i].msg) # {}
    /\ \A i \in 1..Len(streams.errors) :
          LinesOf(streams.audit, streams.errors[i].msg) # {}

\* C18: a record in a file of the log directory is still in a file of the
\* directory after any step, unless the step is cleanup_old_logs and the
\* file that held the record was older than the retention horizon.
C18_RecordsStayOnDisk ==
    [][ \A s \in StreamNames, k \in Slots :
          \A i \in 1..Len(log_dir[s][k].records) :
             \/ log_dir[s][k].records[i] \in OnDisk(log_dir', s)
             \/ /\ out'.op = "cleanup_old_logs"
                /\ log_dir[s][k].old ]_vars

\* The threads that are writing a record inside log_event.
WritingRecord == {t \in Threads : pc[t] \in {"event_write", "error_write"}}

\* C19: the writes of two log_event records are never interleaved: at most
\* one thread is between the first and the last write of its record, and
\* any two records that are in both the event stream and the error stream
\* are in the same order in both.
C19_RecordsNotInterleaved ==
    /\ Cardinality(WritingRecord) <= 1
    /\ \A i1, i2 \in 1..Len(streams.events) :
         \A j1, j2 \in 1..Len(streams.errors) :
            ( /\ streams.events[i1].msg = streams.errors[j1].msg
              /\ streams.events[i2].msg = streams.errors[j2].msg )
                 => (i1 < i2 <=> j1 < j2)

\* Two threads have each written an ERROR or CRITICAL record through
\* log_event, to both streams.
C19_Witness ==
    \E t1, t2 \in Threads :
        /\ t1 # t2
        /\ \A t \in {t1, t2} :
              /\ LinesOf(streams.events, <<t, 1>>) # {}
              /\ LinesOf(streams.errors, <<t, 1>>) # {}

\* C20: convert_sitk_to_vtk leaves every field of the Image Loader as it
\* was, whether it returns an image or None.
C20_ConversionRetainsNothing ==
    [][ out'.op = "convert_sitk_to_vtk" => image_processor' = image_processor
      ]_vars

\* C21: switchTo2DView and switchTo3DView called while the loaded type is
\* not DICOM (a mesh or nothing is loaded) emit an error event and leave
\* the scene, the display mode, is_3d_view, current_image_type and the
\* resident data as they were.
C21_SwitchWithoutVolume ==
    [][ ( /\ out'.op \in {"switchTo2DView", "switchTo3DView"}
          /\ current_image_type # "DICOM" )
            => /\ HasError(out'.ui)
               /\ out'.outcome = "failed"
               /\ ~out'.rendered
               /\ app' = app ]_vars

\* switchTo3DView was refused while a mesh is loaded and shown and an
\* earlier volume is still in the Image Loader.
C21_Witness ==
    /\ out.op = "switchTo3DView"
    /\ out.ui = <<Err("InvalidMode")>>
    /\ current_image_type = "STL"
    /\ vtk_renderer.current_display_mode = "STL"
    /\ image_processor.current_vtk_image # None

\* C22: after a load that returned its data, the metadata map is the
\* metadata of the data just loaded: its image_type is the type loaded and
\* nothing in it comes from an earlier load.
C22_MetadataOfLastLoad ==
    [][ /\ (out'.op = "load_dicom_series" /\ out'.ret = "obj")
             => image_processor'.image_metadata =
                   [image_type |-> "DICOM", src |-> out'.args.d.img]
        /\ (out'.op = "load_stl_file" /\ out'.ret = "obj")
             => image_processor'.image_metadata =
                   [image_type |-> "STL", src |-> out'.args.f.mesh] ]_vars

\* C23: get_recent_events(count) returns the last min(count, n) lines of
\* the event log of n lines, in file order, for every count >= 0.
C23_RecentEvents ==
    [][ out'.op = "get_recent_events"
          => LET lines == EventLogLines(log_dir)
                 n == Len(lines)
                 count == out'.args.count
                 k == IF count < n THEN count ELSE n
             IN  /\ out'.events = SubSeq(lines, n - k + 1, n)
                 /\ Len(out'.events) <= count ]_vars

\* C24: in every reachable state the controller's fields agree with the
\* renderer's display mode: current_image_type is DICOM exactly in modes 2D
\* and 3D_VOLUME, STL exactly in mode STL, None exactly in mode None, and
\* is_3d_view is true exactly in modes 3D_VOLUME and STL.
C24_ControllerAgreesWithRenderer ==
    LET mode == vtk_renderer.current_display_mode
    IN  /\ (current_image_type = "DICOM") <=> (mode \in {"2D", "3D_VOLUME"})
        /\ (current_image_type = "STL") <=> (mode = "STL")
        /\ (current_image_type = "None") <=> (mode = "None")
        /\ is_3d_view <=> (mode \in {"3D_VOLUME", "STL"})

\* C25: whenever the Image Loader holds a decoded image and a renderable
\* image, the renderable image is the conversion of that decoded image.
C25_RenderableOfDecoded ==
    ( /\ image_processor.current_sitk_image # None
      /\ image_processor.current_vtk_image # None )
        => image_processor.current_vtk_image
              = image_processor.current_sitk_image

\* C26: in one loadDicomSeries or loadStlFile operation no error event
\* follows an imageLoaded event, and when the operation returns
\* current_image_type is the type the imageLoaded event carries.
C26_ImageLoadedOnlyOnSuccess ==
    (out.op \in {"loadDicomSeries", "loadStlFile"})
        => \A i \in 1..Len(out.ui) :
              (out.ui[i].sig = "imageLoaded")
                 => /\ \A j \in (i + 1)..Len(out.ui) :
                          out.ui[j].sig # "errorOccurred"
                    /\ current_image_type = out.ui[i].arg

\* C27: a UI operation that fails does not report its failure by two
\* error events (that it reports it at all is C13).
C27_OneErrorPerFailure ==
    (out.op \in UiOperations /\ out.outcome = "failed")
        => Cardinality({i \in 1..Len(out.ui) :
                           out.ui[i].sig = "errorOccurred"}) <= 1

\* C28: a log_error call that holds the lock comes to a state in which the
\* error stream and the event stream each hold exactly one record of it.
C28_LogErrorOneRecordEach ==
    \A t \in Threads, n \in 1..MaxCalls :
        ( /\ pc[t] = "body"
          /\ call[t].method = "log_error"
          /\ call[t].msg = <<t, n>> )
            ~> ( /\ Cardinality(LinesOf(streams.errors, <<t, n>>)) = 1
                 /\ Cardinality(LinesOf(streams.events, <<t, n>>)) = 1 )

\* C29: after a successful switchTo2DView the applied window and level are
\* max - min and (max + min) / 2 of the displayed image's scalar range, and
\* after a successful switchTo3DView the transfer functions are those of
\* the 'default' preset, whatever was applied before.
C29_SwitchRestoresDefaults ==
    LET img == image_processor.current_vtk_image
    IN  /\ (out.op = "switchTo2DView" /\ out.outcome = "ok")
             => vtk_renderer.window_level =
                   <<[window |-> DefaultWindow(img), level |-> DefaultLevel(img)]>>
        /\ (out.op = "switchTo3DView" /\ out.outcome = "ok")
             => /\ vtk_renderer.color_func =
                      <<AddPoints({}, Placed(img, ColorNodes("default")))>>
                /\ vtk_renderer.opacity_func =
                      <<AddPoints({}, Placed(img, OpacityNodes("default")))>>

\* switchTo2DView succeeded on image 2, whose defaults differ from every
\* window and level updateWindowLevel can set, after a 3D display.
C29_Witness ==
    /\ out.op = "switchTo2DView"
    /\ out.outcome = "ok"
    /\ image_processor.current_vtk_image = 2
    /\ vtk_renderer.color_func # <<>>
    /\ \A window \in 1..MaxWL, level \in 1..MaxWL :
          vtk_renderer.window_level # <<[window |-> window, level |-> level]>>

VolumeViewReady ==
    /\ current_image_type = "DICOM"
    /\ is_3d_view
    /\ vtk_renderer.current_display_mode = "3D_VOLUME"
    /\ vtk_renderer.current_vtk_image # None
    /\ vtk_renderer.color_func # <<>>

=============================================================================
